---- MODULE Spec2Model ----
(***************************************************************************)
(* Model of src-tauri/src/core/core.rs (CoreManager): the process          *)
(* supervisor (start_core / stop_core / restart_core), the config apply    *)
(* pipeline (update_config) and the core switch (change_core).             *)
(*                                                                         *)
(* Callers are asynchronous tasks.  Every .await of the source is a step   *)
(* boundary; code between two awaits is one atomic step.  A function       *)
(* return drops the MutexGuard, so the return step releases the lock.      *)
(* Texts (diagnostics, error messages) are sequences of characters.        *)
(***************************************************************************)
EXTENDS Naturals, Sequences, FiniteSets

\* ------------------------------------------------------------------ bounds
\* entry-point calls made in one behaviour
MaxCalls == 2
\* directly spawned engines counted exactly; more count as MaxSidecars
MaxSidecars == 2
\* longest hotkey list handed to the hotkey manager
MaxHotkeys == 2

\* the concurrent tasks that call into CoreManager::global()
Callers == {1, 2}
NoCaller == 0

\* ------------------------------------------------------------------ texts
EmptyText == <<>>
ErrGenerate == <<"g", "e", "n">>
ErrGenFile == <<"f", "i", "l", "e">>
ErrSidecar == <<"s", "p", "a", "w", "n">>
ErrSvcRun == <<"s", "v", "c", "r", "u", "n">>
ErrSvcStop == <<"s", "v", "c", "s", "t", "o", "p">>
ErrCoreNull == <<"n", "u", "l", "l">>
ErrCoreName == <<"n", "a", "m", "e">>
ErrHomeDir == <<"h", "o", "m", "e">>
ErrSaveYaml == <<"y", "a", "m", "l">>

\* Result<()> and Result<(bool, String)> values
Ok == [tag |-> "Ok", passed |-> TRUE, diag |-> EmptyText]
Outcome(passed, diag) == [tag |-> "Ok", passed |-> passed, diag |-> diag]
Err(e) == [tag |-> "Err", passed |-> FALSE, diag |-> e]
NoValue == [tag |-> "None", passed |-> FALSE, diag |-> EmptyText]

VARIABLES
    running,     \* CoreManager.running: the bool inside the Mutex
    lockHolder,  \* the caller that owns the MutexGuard, or NoCaller
    svcEngine,   \* an engine run by the privileged service is alive
    sidecars,    \* number of directly spawned (forgotten) engines alive
    verge,       \* Config::verge():   [data, draft]
    runtime,     \* Config::runtime(): [data, draft]
    runFile,     \* content of the Run-type file on disk
    pc,          \* per caller: position in the code
    stack,       \* per caller: continuations of the enclosing calls
    op,          \* per caller: the entry point it called
    arg,         \* per caller: the argument of the entry point
    rv,          \* per caller: the value last returned to it
    tries,       \* per caller: loop index i of update_config
    fx,          \* per caller: external effects of the current call, in order
    obs,         \* per caller: RunningState as read / left by each body
    calls,       \* number of entry-point calls made so far
    hk           \* the Hotkey manager (core/hotkey.rs) and the OS shortcuts

vars == <<running, lockHolder, svcEngine, sidecars, verge, runtime,
          runFile, pc, stack, op, arg, rv, tries, fx, obs, calls, hk>>

supVars == <<running, lockHolder, svcEngine, sidecars>>
cfgVars == <<verge, runtime, runFile>>

\* ------------------------------------------------- config store (Draft<T>)
\* Each domain is [data |-> committed value, draft |-> <<>> or <<working copy>>].
NoDraft == <<>>
CoreStable == "verge-mihomo"
CoreAlpha == "verge-mihomo-alpha"
\* runtime configurations: the one committed at startup, the n-th regenerated
\* one, and the default derived from the committed engine-facing config
RtInit == <<"init", 0>>
RtGenerated(n) == <<"generated", n>>
RtDefault == <<"default", 0>>

\* latest(): the value a reader sees: the working copy when one is pending
\* ("validation reads the currently-drafted variant", "the runtime draft used
\* to run the engine"), else the committed value.
Latest(s) == IF s.draft # NoDraft THEN s.draft[1] ELSE s.data
\* draft(): the working copy, created on first use, here overwritten with v.
WriteDraft(s, v) == [s EXCEPT !.draft = <<v>>]
\* apply(): the draft, if any, becomes the committed value.
Apply(s) == IF s.draft # NoDraft THEN [data |-> s.draft[1], draft |-> NoDraft] ELSE s
\* discard(): the draft is dropped, the committed value stays.
Discard(s) == [s EXCEPT !.draft = NoDraft]

\* ------------------------------------------------------- calls and returns
Min(a, b) == IF a < b THEN a ELSE b

\* Where control goes when a callee returns v to the continuations stk.
\* restart_core (lines 135-137) has no await of its own: `stop_core().await?`
\* passes an Err straight to restart_core's caller and otherwise goes on to
\* start_core, whose result restart_core returns.
RECURSIVE Land(_, _)
LandSwallowsStart(stk, v) ==
    LET k == Head(stk)
        rest == Tail(stk)
    IN  CASE k = "restart_mid" ->
                IF v.tag = "Err"
                THEN Land(rest, v)
                ELSE [pc |-> "start_lock", stack |-> <<"restart_end">> \o rest,
                      rv |-> v, fx |-> <<"start_core">>]
          [] k = "restart_end" -> Land(rest, Ok)
          [] OTHER -> [pc |-> k, stack |-> rest, rv |-> v, fx |-> <<>>]

Land(stk, v) ==
    LET k == Head(stk)
        rest == Tail(stk)
    IN  CASE k = "restart_mid" ->
                IF v.tag = "Err"
                THEN Land(rest, v)
                ELSE [pc |-> "start_lock", stack |-> <<"restart_end">> \o rest,
                      rv |-> v, fx |-> <<"start_core">>]
          [] k = "restart_end" -> Land(rest, v)
          [] OTHER -> [pc |-> k, stack |-> rest, rv |-> v, fx |-> <<>>]

\* Caller p's current function returns v, having added the effects add.
Return(p, v, add) ==
    LET l == Land(stack[p], v)
    IN  /\ pc' = [pc EXCEPT ![p] = l.pc]
        /\ stack' = [stack EXCEPT ![p] = l.stack]
        /\ rv' = [rv EXCEPT ![p] = l.rv]
        /\ fx' = [fx EXCEPT ![p] = @ \o add \o l.fx]
        /\ UNCHANGED hk

\* Caller p stays in its function and moves to position to.
Goto(p, to, add) ==
    /\ pc' = [pc EXCEPT ![p] = to]
    /\ fx' = [fx EXCEPT ![p] = @ \o add]
    /\ UNCHANGED <<stack, rv, hk>>

\* A supervisor body returns: the MutexGuard is dropped with it.
Unlock(p, ob, left) ==
    /\ lockHolder' = NoCaller
    /\ obs' = [obs EXCEPT ![p] = [ob EXCEPT !.exit = Append(@, left)]]

\* ---------------------------------------------------------------- stop_core
StopLockUnguarded(p) ==
    /\ pc[p] = "stop_lock"
    /\ lockHolder' = p
    /\ Goto(p, "stop_check", <<>>)
    /\ UNCHANGED <<running, svcEngine, sidecars, cfgVars, op, arg, tries, obs, calls>>

\* line 38: self.running.lock().await
StopLock(p) ==
    /\ pc[p] = "stop_lock"
    /\ lockHolder = NoCaller
    /\ lockHolder' = p
    /\ Goto(p, "stop_check", <<>>)
    /\ UNCHANGED <<running, svcEngine, sidecars, cfgVars, op, arg, tries, obs, calls>>

\* lines 40-43: the early return when the core is not running
StopCheck(p) ==
    /\ pc[p] = "stop_check"
    /\ IF ~running
       THEN /\ Return(p, Ok, <<>>)
            /\ Unlock(p, [obs[p] EXCEPT !.entry = Append(@, running)], running)
       ELSE /\ Goto(p, "stop_patch", <<>>)
            /\ obs' = [obs EXCEPT ![p].entry = Append(@, running)]
            /\ UNCHANGED lockHolder
    /\ UNCHANGED <<running, svcEngine, sidecars, cfgVars, op, arg, tries, calls>>

StopPatchFatal(p) ==
    /\ pc[p] = "stop_patch"
    /\ \/ /\ Goto(p, "stop_probe", <<"patch_ok">>)
          /\ UNCHANGED <<lockHolder, obs>>
       \/ /\ Return(p, Err(ErrSvcStop), <<"patch_err">>)
          /\ Unlock(p, obs[p], running)
    /\ UNCHANGED <<running, svcEngine, sidecars, cfgVars, op, arg, tries, calls>>

StopPatchSkipped(p) ==
    /\ pc[p] = "stop_patch"
    /\ \/ Goto(p, "stop_probe", <<"patch_ok">>)
       \/ Goto(p, "stop_probe", <<>>)
    /\ UNCHANGED <<supVars, cfgVars, op, arg, tries, obs, calls>>

\* lines 45-51: log_err!(clash_api::patch_configs(&disable).await)
StopPatch(p) ==
    /\ pc[p] = "stop_patch"
    /\ \E e \in {"patch_ok", "patch_err"} : Goto(p, "stop_probe", <<e>>)
    /\ UNCHANGED <<supVars, cfgVars, op, arg, tries, obs, calls>>

\* line 54: service::check_service().await.is_ok(); the privileged service is
\* installed or removed out of band, so each probe may answer either way
StopProbe(p) ==
    /\ pc[p] = "stop_probe"
    /\ \E to \in {"stop_service", "stop_kill"} : Goto(p, to, <<"probe">>)
    /\ UNCHANGED <<supVars, cfgVars, op, arg, tries, obs, calls>>

\* lines 55-56 and 80-81: service::stop_core_by_service().await?
StopByService(p) ==
    /\ pc[p] = "stop_service"
    /\ \/ /\ svcEngine' = FALSE
          /\ running' = FALSE
          /\ Return(p, Ok, <<"svc_stop_ok">>)
          /\ Unlock(p, obs[p], FALSE)
       \/ /\ UNCHANGED <<svcEngine, running>>
          /\ Return(p, Err(ErrSvcStop), <<"svc_stop_err">>)
          /\ Unlock(p, obs[p], running)
    /\ UNCHANGED <<sidecars, cfgVars, op, arg, tries, calls>>

\* lines 58-81: kill by process name, its result dropped (`let _ =`).  What
\* the kill reaches is the operating system's answer: every engine, only the
\* directly spawned ones, or none.
StopKill(p) ==
    /\ pc[p] = "stop_kill"
    /\ \E reach \in {"all", "sidecars", "none"} :
          /\ sidecars' = IF reach = "none" THEN sidecars ELSE 0
          /\ svcEngine' = IF reach = "all" THEN FALSE ELSE svcEngine
          /\ Return(p, Ok, <<IF reach = "none" THEN "kill_err" ELSE "kill_ok">>)
    /\ running' = FALSE
    /\ Unlock(p, obs[p], FALSE)
    /\ UNCHANGED <<cfgVars, op, arg, tries, calls>>

\* --------------------------------------------------------------- start_core
StartLockUnguarded(p) ==
    /\ pc[p] = "start_lock"
    /\ lockHolder' = p
    /\ Goto(p, "start_check", <<>>)
    /\ UNCHANGED <<running, svcEngine, sidecars, cfgVars, op, arg, tries, obs, calls>>

\* line 86: self.running.lock().await
StartLock(p) ==
    /\ pc[p] = "start_lock"
    /\ lockHolder = NoCaller
    /\ lockHolder' = p
    /\ Goto(p, "start_check", <<>>)
    /\ UNCHANGED <<running, svcEngine, sidecars, cfgVars, op, arg, tries, obs, calls>>

StartCheckNoReturn(p) ==
    /\ pc[p] = "start_check"
    /\ Goto(p, "start_generate", <<>>)
    /\ obs' = [obs EXCEPT ![p].entry = Append(@, running)]
    /\ UNCHANGED lockHolder
    /\ UNCHANGED <<running, svcEngine, sidecars, cfgVars, op, arg, tries, calls>>

\* lines 87-90: the early return when the core is running
StartCheck(p) ==
    /\ pc[p] = "start_check"
    /\ IF running
       THEN /\ Return(p, Ok, <<>>)
            /\ Unlock(p, [obs[p] EXCEPT !.entry = Append(@, running)], running)
       ELSE /\ Goto(p, "start_generate", <<>>)
            /\ obs' = [obs EXCEPT ![p].entry = Append(@, running)]
            /\ UNCHANGED lockHolder
    /\ UNCHANGED <<running, svcEngine, sidecars, cfgVars, op, arg, tries, calls>>

\* line 92: Config::generate_file(ConfigType::Run)?
StartGenerate(p) ==
    /\ pc[p] = "start_generate"
    /\ \/ /\ runFile' = Latest(runtime)
          /\ Goto(p, "start_probe", <<"gen_run">>)
          /\ UNCHANGED <<lockHolder, obs>>
       \/ /\ UNCHANGED runFile
          /\ Return(p, Err(ErrGenFile), <<"gen_run_err">>)
          /\ Unlock(p, obs[p], running)
    /\ UNCHANGED <<running, svcEngine, sidecars, verge, runtime, op, arg, tries, calls>>

\* line 95: service::check_service().await.is_ok(), either answer
StartProbe(p) ==
    /\ pc[p] = "start_probe"
    /\ \E to \in {"start_service", "start_spawn"} : Goto(p, to, <<"probe">>)
    /\ UNCHANGED <<supVars, cfgVars, op, arg, tries, obs, calls>>

StartByServiceEager(p) ==
    /\ pc[p] = "start_service"
    /\ running' = TRUE
    /\ \/ /\ svcEngine' = TRUE
          /\ Return(p, Ok, <<"svc_run_ok">>)
       \/ /\ UNCHANGED svcEngine
          /\ Return(p, Err(ErrSvcRun), <<"svc_run_err">>)
    /\ Unlock(p, obs[p], TRUE)
    /\ UNCHANGED <<sidecars, cfgVars, op, arg, tries, calls>>

\* lines 96-97 and 127-129: service::run_core_by_service(&config_path).await?
StartByService(p) ==
    /\ pc[p] = "start_service"
    /\ \/ /\ svcEngine' = TRUE
          /\ running' = TRUE
          /\ Return(p, Ok, <<"svc_run_ok">>)
          /\ Unlock(p, obs[p], TRUE)
       \/ /\ UNCHANGED <<svcEngine, running>>
          /\ Return(p, Err(ErrSvcRun), <<"svc_run_err">>)
          /\ Unlock(p, obs[p], running)
    /\ UNCHANGED <<sidecars, cfgVars, op, arg, tries, calls>>

\* lines 99-117: resolve the paths, spawn the sidecar, forget the child
StartSpawn(p) ==
    /\ pc[p] = "start_spawn"
    /\ \/ /\ sidecars' = Min(sidecars + 1, MaxSidecars)
          /\ Goto(p, "start_sleep", <<"spawn_ok">>)
          /\ UNCHANGED <<lockHolder, obs>>
       \/ /\ UNCHANGED sidecars
          /\ Return(p, Err(ErrSidecar), <<"spawn_err">>)
          /\ Unlock(p, obs[p], running)
    /\ UNCHANGED <<running, svcEngine, cfgVars, op, arg, tries, calls>>

\* lines 120-129: after the 500 ms sleep, *running = true; Ok(())
StartFinish(p) ==
    /\ pc[p] = "start_sleep"
    /\ running' = TRUE
    /\ Return(p, Ok, <<>>)
    /\ Unlock(p, obs[p], TRUE)
    /\ UNCHANGED <<svcEngine, sidecars, cfgVars, op, arg, tries, calls>>

\* -------------------------------------------------- validate_config_internal
\* line 242: error_keywords
KwFATA == <<"F", "A", "T", "A">>
KwFatal == <<"f", "a", "t", "a", "l">>
KwParse == <<"P", "a", "r", "s", "e", " ", "c", "o", "n", "f", "i", "g", " ",
             "e", "r", "r", "o", "r">>
KwLevelFatal == <<"l", "e", "v", "e", "l", "=">> \o KwFatal
ErrorKeywords == {KwFATA, KwFatal, KwParse, KwLevelFatal}

\* str::contains
Contains(s, kw) ==
    \E i \in 1..(Len(s) + 1) :
        /\ i + Len(kw) - 1 <= Len(s)
        /\ SubSeq(s, i, i + Len(kw) - 1) = kw

\* exit status of the check process: an exit code, or none (killed by a signal)
NoCode == 99
StatusSuccess(st) == st = 0
Digit(n) == <<"0", "1", "2", "3", "4", "5", "6", "7", "8", "9">>[n + 1]
TextExitCode(code) == <<"c", "o", "d", "e", ":">> \o <<Digit(code)>>
TextKilled == <<"k", "i", "l", "l", "e", "d">>

ValidateOutputNoFallbackText(st, stdout, stderr) ==
    LET has_error == ~StatusSuccess(st) \/ \E kw \in ErrorKeywords : Contains(stderr, kw)
        error_msg == IF stdout # EmptyText THEN stdout ELSE stderr
    IN  IF has_error THEN Outcome(FALSE, error_msg) ELSE Outcome(TRUE, EmptyText)

ValidateOutputScansStdout(st, stdout, stderr) ==
    LET has_error == \/ ~StatusSuccess(st)
                     \/ \E kw \in ErrorKeywords : Contains(stderr, kw) \/ Contains(stdout, kw)
        error_msg == IF stdout # EmptyText THEN stdout
                     ELSE IF stderr # EmptyText THEN stderr
                     ELSE IF st # NoCode THEN TextExitCode(st)
                     ELSE TextKilled
    IN  IF has_error THEN Outcome(FALSE, error_msg) ELSE Outcome(TRUE, EmptyText)

\* lines 238-265: the outcome from exit status, stdout and stderr
ValidateOutput(st, stdout, stderr) ==
    LET has_error == ~StatusSuccess(st) \/ \E kw \in ErrorKeywords : Contains(stderr, kw)
        error_msg == IF stdout # EmptyText THEN stdout
                     ELSE IF stderr # EmptyText THEN stderr
                     ELSE IF st # NoCode THEN TextExitCode(st)
                     ELSE TextKilled
    IN  IF has_error THEN Outcome(FALSE, error_msg) ELSE Outcome(TRUE, EmptyText)

\* what the check process is let to print in the state machine
CheckStatuses == {0, 1}
CheckStdouts == {EmptyText}
CheckStderrs == {EmptyText, <<"x">> \o KwFATA}

SelectedCoreCommitted == verge.data

\* the engine variant a reader of the application settings selects
\* (lines 102-103 and 223-224: latest().clash_core, default verge-mihomo)
SelectedCore == Latest(verge)

\* lines 269-271: validate_config generates the Check-type file
ValidateFile(p) ==
    /\ pc[p] = "vc_file"
    /\ \/ Goto(p, "vc_run", <<"gen_check">>)
       \/ Return(p, Err(ErrGenFile), <<"gen_check_err">>)
    /\ UNCHANGED <<supVars, cfgVars, op, arg, tries, obs, calls>>

\* lines 220-266: validate_config_internal runs the selected engine in check
\* mode; launching it or collecting its output can fail (`?`)
ValidateInternal(p) ==
    /\ pc[p] = "vc_run"
    /\ \/ Return(p, Err(ErrSidecar), <<"check_err">>)
       \/ \E st \in CheckStatuses, so \in CheckStdouts, se \in CheckStderrs :
             Return(p, ValidateOutput(st, so, se), <<"check", SelectedCore>>)
    /\ UNCHANGED <<supVars, cfgVars, op, arg, tries, obs, calls>>

\* ------------------------------------------------------ validate_config_file
\* A text is the sequence of its characters; a character outside ASCII is
\* written as its code point ("U+811A").

\* str::ends_with
EndsWith(s, suffix) ==
    /\ Len(suffix) <= Len(s)
    /\ SubSeq(s, Len(s) - Len(suffix) + 1, Len(s)) = suffix

\* line 319: content.lines().take(n).collect::<String>(): the first n lines,
\* joined with nothing between them
RECURSIVE TakeLines(_, _)
TakeLines(s, n) ==
    IF s = <<>> \/ n = 0 THEN <<>>
    ELSE IF Head(s) = "\n" THEN TakeLines(Tail(s), n - 1)
    ELSE <<Head(s)>> \o TakeLines(Tail(s), n)

\* lines 320-326: the tokens is_script_file looks for
TokFunction ==
    <<"f", "u", "n", "c", "t", "i", "o", "n">>
TokLineComment ==
    <<"/", "/">>
TokBlockComment ==
    <<"/", "*">>
TokImport ==
    <<"i", "m", "p", "o", "r", "t">>
TokExport ==
    <<"e", "x", "p", "o", "r", "t">>
TokConst ==
    <<"c", "o", "n", "s", "t", " ">>
TokLet ==
    <<"l", "e", "t", " ">>
SniffTokens ==
    {TokFunction, TokLineComment, TokBlockComment, TokImport, TokExport, TokConst, TokLet}
\* line 319: take(5)
SniffLines == 5

\* lines 318-326: is_script_file on the content it read
IsScriptFile(content) ==
    LET first_lines == TakeLines(content, SniffLines)
    IN  \E t \in SniffTokens : Contains(first_lines, t)

\* line 354: the texts that count as a main entry point
MainFunction ==
    <<"f", "u", "n", "c", "t", "i", "o", "n", " ", "m", "a", "i", "n">>
MainConst ==
    <<"c", "o", "n", "s", "t", " ", "m", "a", "i", "n">>
MainLet ==
    <<"l", "e", "t", " ", "m", "a", "i", "n">>
MainMarkers == {MainFunction, MainConst, MainLet}

\* line 279
TextFileNotFound ==
    <<"F", "i", "l", "e", " ", "n", "o", "t", " ", "f", "o", "u", "n", "d",
      ":", " ">>
\* line 335
TextReadFailed ==
    <<"F", "a", "i", "l", "e", "d", " ", "t", "o", " ", "r", "e", "a", "d",
      " ", "s", "c", "r", "i", "p", "t", " ", "f", "i", "l", "e", ":", " ">>
\* line 355
TextMissingMain ==
    <<"S", "c", "r", "i", "p", "t", " ", "m", "u", "s", "t", " ", "c", "o",
      "n", "t", "a", "i", "n", " ", "a", " ", "m", "a", "i", "n", " ", "f",
      "u", "n", "c", "t", "i", "o", "n">>
\* line 364
TextSyntaxError ==
    <<"S", "c", "r", "i", "p", "t", " ", "s", "y", "n", "t", "a", "x", " ",
      "e", "r", "r", "o", "r", ":", " ">>
\* line 365: the text of the log line, also what the test looks for (line 489)
LogSyntaxError ==
    <<"U+811A", "U+672C", "U+8BED", "U+6CD5", "U+9519", "U+8BEF">>
\* line 356 and the test at line 495
LogMissingMain ==
    <<"U+7F3A", "U+5C11", "m", "a", "i", "n", "U+51FD", "U+6570">>

\* the io::Error of a failed read and the error the interpreter reports
IoErrorText ==
    <<"d", "e", "n", "i", "e", "d">>
EvalErrorText ==
    <<"S", "y", "n", "t", "a", "x", "E", "r", "r", "o", "r">>

\* lines 330-370: validate_script_file, given whether the file could be read,
\* its content, and whether the interpreter evaluated it without error
ValidateScript(readable, content, evaluates) ==
    IF ~readable THEN Outcome(FALSE, TextReadFailed \o IoErrorText)
    ELSE IF evaluates
    THEN IF \A m \in MainMarkers : ~Contains(content, m)
         THEN Outcome(FALSE, TextMissingMain)
         ELSE Outcome(TRUE, EmptyText)
    ELSE Outcome(FALSE, TextSyntaxError \o EvalErrorText)

\* inputs of validate_config_file: the path, the file behind it, what the
\* interpreter says of its content, and what a check process would print
PathJs ==
    <<"a", ".", "j", "s">>
PathYaml ==
    <<"a", ".", "y", "m", "l">>
PathNoDot ==
    <<"a", "j", "s">>
Paths == {PathJs, PathYaml, PathNoDot}
SrcMain ==
    <<"f", "u", "n", "c", "t", "i", "o", "n", " ", "m", "a", "i", "n", "(",
      "c", ")", "{", "}">>
SrcMainLike ==
    <<"l", "e", "t", " ", "m", "a", "i", "n", "x", "=", "1">>
SrcHelper ==
    <<"c", "o", "n", "s", "t", " ", "a", "=", "1">>
SrcYaml ==
    <<"p", "o", "r", "t", ":", " ", "1">>
SrcLateToken ==
    <<"a", "\n", "b", "\n", "c", "\n", "d", "\n", "e", "\n", "/", "/", "x">>
SrcSplitToken ==
    <<"a", ":", " ", "/", "\n", "/">>
Contents == {EmptyText, SrcMain, SrcMainLike, SrcHelper, SrcYaml, SrcLateToken, SrcSplitToken}
FileStatuses == {0, 1, NoCode}
FileStdouts == {EmptyText, KwFATA, <<"o", "u", "t">>}
FileStderrs ==
    {EmptyText, <<"w", "a", "r", "n">>, <<"x">> \o KwFATA, KwFatal \o <<"!">>,
     KwParse, <<"t", " ">> \o KwLevelFatal}
FileInputs ==
    [path : Paths, exists : BOOLEAN, readable : BOOLEAN, content : Contents,
     evaluates : BOOLEAN, status : FileStatuses, stdout : FileStdouts,
     stderr : FileStderrs]

VfDispatchSniffErrorFails(p) ==
    LET f == arg[p]
    IN  /\ pc[p] = "vf_entry"
        /\ IF ~f.exists
           THEN Return(p, Outcome(FALSE, TextFileNotFound \o f.path), <<>>)
           ELSE IF EndsWith(f.path, <<".", "j", "s">>)
           THEN Goto(p, "vs_run", <<"script">>)
           ELSE IF ~f.readable
           THEN Return(p, Outcome(FALSE, TextReadFailed \o IoErrorText), <<"sniff_err">>)
           ELSE IF IsScriptFile(f.content)
           THEN Goto(p, "vs_run", <<"sniff", "script">>)
           ELSE Goto(p, "vf_internal", <<"sniff", "engine">>)
        /\ UNCHANGED <<supVars, cfgVars, op, arg, tries, obs, calls>>

\* lines 276-306: validate_config_file up to the validator it hands over to
VfDispatch(p) ==
    LET f == arg[p]
    IN  /\ pc[p] = "vf_entry"
        /\ IF ~f.exists
           THEN Return(p, Outcome(FALSE, TextFileNotFound \o f.path), <<>>)
           ELSE IF EndsWith(f.path, <<".", "j", "s">>)
           THEN Goto(p, "vs_run", <<"script">>)
           ELSE IF ~f.readable
           THEN Goto(p, "vf_internal", <<"sniff_err", "engine">>)
           ELSE IF IsScriptFile(f.content)
           THEN Goto(p, "vs_run", <<"sniff", "script">>)
           ELSE Goto(p, "vf_internal", <<"sniff", "engine">>)
        /\ UNCHANGED <<supVars, cfgVars, op, arg, tries, obs, calls>>

\* lines 300 and 330-370: validate_script_file(config_path)
VfScript(p) ==
    LET f == arg[p]
    IN  /\ pc[p] = "vs_run"
        /\ Return(p, ValidateScript(f.readable, f.content, f.evaluates),
                  <<IF f.readable THEN "script_read" ELSE "script_read_err">>)
        /\ UNCHANGED <<supVars, cfgVars, op, arg, tries, obs, calls>>

\* lines 293, 305 and 220-266: validate_config_internal(config_path)
VfInternal(p) ==
    LET f == arg[p]
    IN  /\ pc[p] = "vf_internal"
        /\ \/ Return(p, Err(ErrSidecar), <<"check_err">>)
           \/ Return(p, ValidateOutput(f.status, f.stdout, f.stderr),
                     <<"check", SelectedCore>>)
        /\ UNCHANGED <<supVars, cfgVars, op, arg, tries, obs, calls>>

\* ------------------------------------------------------------ update_config
\* line 390: for i in 0..3
MaxAttempts == 3

\* line 377: Config::generate().await? puts the regenerated state in the
\* runtime draft
UcGenerate(p) ==
    /\ pc[p] = "uc_generate"
    /\ \/ /\ runtime' = WriteDraft(runtime, RtGenerated(calls))
          /\ Goto(p, "uc_check_file", <<"generate">>)
       \/ /\ UNCHANGED runtime
          /\ Return(p, Err(ErrGenerate), <<"generate_err">>)
    /\ UNCHANGED <<supVars, verge, runFile, op, arg, tries, obs, calls>>

\* lines 380-383: Config::generate_file(ConfigType::Check)?, then validate
UcCheckFile(p) ==
    /\ pc[p] = "uc_check_file"
    /\ \/ /\ pc' = [pc EXCEPT ![p] = "vc_file"]
          /\ stack' = [stack EXCEPT ![p] = <<"uc_validated">> \o @]
          /\ fx' = [fx EXCEPT ![p] = @ \o <<"gen_check">>]
          /\ UNCHANGED <<rv, hk>>
       \/ Return(p, Err(ErrGenFile), <<"gen_check_err">>)
    /\ UNCHANGED <<supVars, cfgVars, op, arg, tries, obs, calls>>

UcValidatedIgnoresVerdict(p) ==
    /\ pc[p] = "uc_validated"
    /\ IF rv[p].tag = "Err"
       THEN /\ runtime' = Discard(runtime)
            /\ Return(p, rv[p], <<"runtime_discard">>)
            /\ UNCHANGED <<runFile, tries>>
       ELSE \/ /\ runFile' = Latest(runtime)
               /\ tries' = [tries EXCEPT ![p] = 0]
               /\ Goto(p, "uc_push", <<"gen_run">>)
               /\ UNCHANGED runtime
            \/ /\ Return(p, Err(ErrGenFile), <<"gen_run_err">>)
               /\ UNCHANGED <<runtime, runFile, tries>>
    /\ UNCHANGED <<supVars, verge, op, arg, obs, calls>>

\* lines 383-387 and 411-421: the three arms of the match on the validation
UcValidated(p) ==
    /\ pc[p] = "uc_validated"
    /\ IF rv[p].tag = "Err"
       THEN /\ runtime' = Discard(runtime)
            /\ Return(p, rv[p], <<"runtime_discard">>)
            /\ UNCHANGED <<runFile, tries>>
       ELSE IF ~rv[p].passed
       THEN /\ runtime' = Discard(runtime)
            /\ Return(p, rv[p], <<"runtime_discard">>)
            /\ UNCHANGED <<runFile, tries>>
       ELSE \/ /\ runFile' = Latest(runtime)
               /\ tries' = [tries EXCEPT ![p] = 0]
               /\ Goto(p, "uc_push", <<"gen_run">>)
               /\ UNCHANGED runtime
            \/ /\ Return(p, Err(ErrGenFile), <<"gen_run_err">>)
               /\ UNCHANGED <<runtime, runFile, tries>>
    /\ UNCHANGED <<supVars, verge, op, arg, obs, calls>>

\* the error text of the failed push number i (0, 1, 2, ...): each differs
PushError(i) == <<"p", "u", "t", Digit(i)>>

UcPushOffByOne(p) ==
    /\ pc[p] = "uc_push"
    /\ \/ /\ runtime' = Apply(runtime)
          /\ Return(p, Outcome(TRUE, EmptyText), <<"push_ok", "runtime_apply">>)
          /\ tries' = [tries EXCEPT ![p] = 0]
       \/ IF tries[p] < MaxAttempts
          THEN /\ tries' = [tries EXCEPT ![p] = @ + 1]
               /\ Goto(p, "uc_push", <<"push_err">>)
               /\ UNCHANGED runtime
          ELSE /\ runtime' = Discard(runtime)
               /\ Return(p, Outcome(FALSE, PushError(tries[p])),
                         <<"push_err", "runtime_discard">>)
               /\ tries' = [tries EXCEPT ![p] = 0]
    /\ UNCHANGED <<supVars, verge, runFile, op, arg, obs, calls>>

\* lines 390-408: one clash_api::put_configs(run_path).await of the loop
UcPush(p) ==
    /\ pc[p] = "uc_push"
    /\ \/ /\ runtime' = Apply(runtime)
          /\ Return(p, Outcome(TRUE, EmptyText), <<"push_ok", "runtime_apply">>)
          /\ tries' = [tries EXCEPT ![p] = 0]
       \/ IF tries[p] < MaxAttempts - 1
          THEN /\ tries' = [tries EXCEPT ![p] = @ + 1]
               /\ Goto(p, "uc_push", <<"push_err">>)
               /\ UNCHANGED runtime
          ELSE /\ runtime' = Discard(runtime)
               /\ Return(p, Outcome(FALSE, PushError(tries[p])),
                         <<"push_err", "runtime_discard">>)
               /\ tries' = [tries EXCEPT ![p] = 0]
    /\ UNCHANGED <<supVars, verge, runFile, op, arg, obs, calls>>

\* -------------------------------------------------------------- change_core
\* line 160: CLASH_CORES
CLASH_CORES == {CoreStable, CoreAlpha}
CoreNone == "<none>"
CoreArgs == {CoreNone, CoreStable, CoreAlpha, "not-a-real-core"}

ChangeCoreEntryDraftFirst(p) ==
    /\ pc[p] = "cc_entry"
    /\ IF arg[p] = CoreNone
       THEN /\ Return(p, Err(ErrCoreNull), <<>>)
            /\ UNCHANGED verge
       ELSE IF arg[p] \notin CLASH_CORES
       THEN /\ verge' = WriteDraft(verge, arg[p])
            /\ Return(p, Err(ErrCoreName), <<>>)
       ELSE /\ verge' = WriteDraft(verge, arg[p])
            /\ pc' = [pc EXCEPT ![p] = "vc_file"]
            /\ stack' = [stack EXCEPT ![p] = <<"cc_validated">> \o @]
            /\ fx' = [fx EXCEPT ![p] = @ \o <<"verge_draft">>]
            /\ UNCHANGED <<rv, hk>>
    /\ UNCHANGED <<supVars, runtime, runFile, op, arg, tries, obs, calls>>

\* lines 158-172: reject, or write the draft and validate
ChangeCoreEntry(p) ==
    /\ pc[p] = "cc_entry"
    /\ IF arg[p] = CoreNone
       THEN /\ Return(p, Err(ErrCoreNull), <<>>)
            /\ UNCHANGED verge
       ELSE IF arg[p] \notin CLASH_CORES
       THEN /\ Return(p, Err(ErrCoreName), <<>>)
            /\ UNCHANGED verge
       ELSE /\ verge' = WriteDraft(verge, arg[p])
            /\ pc' = [pc EXCEPT ![p] = "vc_file"]
            /\ stack' = [stack EXCEPT ![p] = <<"cc_validated">> \o @]
            /\ fx' = [fx EXCEPT ![p] = @ \o <<"verge_draft">>]
            /\ UNCHANGED <<rv, hk>>
    /\ UNCHANGED <<supVars, runtime, runFile, op, arg, tries, obs, calls>>

\* control enters restart_core (line 133) and its stop_core
CallRestartFrom(p, cont, add) ==
    /\ pc' = [pc EXCEPT ![p] = "stop_lock"]
    /\ stack' = [stack EXCEPT ![p] = <<"restart_mid", cont>> \o @]
    /\ fx' = [fx EXCEPT ![p] = @ \o add \o <<"stop_core">>]
    /\ UNCHANGED <<rv, hk>>

ChangeCoreValidatedKeepsDraft(p) ==
    /\ pc[p] = "cc_validated"
    /\ IF rv[p].tag = "Err"
       THEN /\ UNCHANGED verge
            /\ Return(p, rv[p], <<>>)
       ELSE IF ~rv[p].passed
       THEN /\ Goto(p, "cc_use_default", <<>>)
            /\ UNCHANGED verge
       ELSE /\ verge' = Apply(verge)
            /\ CallRestartFrom(p, "cc_restarted", <<"verge_apply", "save_file">>)
    /\ UNCHANGED <<supVars, runtime, runFile, op, arg, tries, obs, calls>>

\* lines 172-178, 192-194 and 211-215: the three arms of the match
ChangeCoreValidated(p) ==
    /\ pc[p] = "cc_validated"
    /\ IF rv[p].tag = "Err"
       THEN /\ verge' = Discard(verge)
            /\ Return(p, rv[p], <<"verge_discard">>)
       ELSE IF ~rv[p].passed
       THEN /\ Goto(p, "cc_use_default", <<>>)
            /\ UNCHANGED verge
       ELSE /\ verge' = Apply(verge)
            /\ CallRestartFrom(p, "cc_restarted", <<"verge_apply", "save_file">>)
    /\ UNCHANGED <<supVars, runtime, runFile, op, arg, tries, obs, calls>>

\* lines 141-155 (called at line 195): use_default_config
UseDefaultConfig(p) ==
    /\ pc[p] = "cc_use_default"
    /\ \/ /\ Return(p, Err(ErrHomeDir), <<>>)
          /\ UNCHANGED <<runtime, obs>>
       \/ /\ runtime' = WriteDraft(runtime, RtDefault)
          /\ Return(p, Err(ErrSaveYaml), <<"runtime_draft">>)
          /\ UNCHANGED obs
       \/ /\ runtime' = WriteDraft(runtime, RtDefault)
          /\ obs' = [obs EXCEPT ![p].notices = Append(@, rv[p].diag)]
          /\ Goto(p, "cc_fallback", <<"runtime_draft", "save_yaml", "notice">>)
    /\ UNCHANGED <<supVars, verge, runFile, op, arg, tries, calls>>

ChangeCoreFallbackNoCommit(p) ==
    /\ pc[p] = "cc_fallback"
    /\ UNCHANGED verge
    /\ CallRestartFrom(p, "cc_restarted_default", <<"save_file">>)
    /\ UNCHANGED <<supVars, runtime, runFile, op, arg, tries, obs, calls>>

\* lines 196-199: commit the settings and restart under the default config
ChangeCoreFallback(p) ==
    /\ pc[p] = "cc_fallback"
    /\ verge' = Apply(verge)
    /\ CallRestartFrom(p, "cc_restarted_default", <<"verge_apply", "save_file">>)
    /\ UNCHANGED <<supVars, runtime, runFile, op, arg, tries, obs, calls>>

ChangeCoreRestartedCommitsAnyway(p) ==
    /\ pc[p] = "cc_restarted"
    /\ IF rv[p].tag = "Ok"
       THEN /\ runtime' = Apply(runtime)
            /\ Return(p, Ok, <<"runtime_apply">>)
            /\ UNCHANGED verge
       ELSE /\ verge' = Discard(verge)
            /\ runtime' = Apply(runtime)
            /\ Return(p, rv[p], <<"verge_discard", "runtime_apply">>)
    /\ UNCHANGED <<supVars, runFile, op, arg, tries, obs, calls>>

\* lines 178-190: after the restart of a validated switch
ChangeCoreRestarted(p) ==
    /\ pc[p] = "cc_restarted"
    /\ IF rv[p].tag = "Ok"
       THEN /\ runtime' = Apply(runtime)
            /\ Return(p, Ok, <<"runtime_apply">>)
            /\ UNCHANGED verge
       ELSE /\ verge' = Discard(verge)
            /\ runtime' = Discard(runtime)
            /\ Return(p, rv[p], <<"verge_discard", "runtime_discard">>)
    /\ UNCHANGED <<supVars, runFile, op, arg, tries, obs, calls>>

\* lines 199-209: after the restart of a fallback switch
ChangeCoreRestartedDefault(p) ==
    /\ pc[p] = "cc_restarted_default"
    /\ IF rv[p].tag = "Ok"
       THEN /\ Return(p, Ok, <<>>)
            /\ UNCHANGED verge
       ELSE /\ verge' = Discard(verge)
            /\ Return(p, rv[p], <<"verge_discard">>)
    /\ UNCHANGED <<supVars, runtime, runFile, op, arg, tries, obs, calls>>

\* ------------------------------------------------------ Hotkey (hotkey.rs)
\* A hotkey setting is the text "func,key".  A map (HashMap<&str, &str>, and
\* the shortcuts the OS holds) is a set of <<key, func>> pairs with one pair
\* per key.  The Hotkey methods take no await: each call is one step.

\* str::trim, for the space character
RECURSIVE TrimStart(_)
TrimStart(s) == IF s # <<>> /\ Head(s) = " " THEN TrimStart(Tail(s)) ELSE s
RECURSIVE TrimEnd(_)
TrimEnd(s) ==
    IF s # <<>> /\ s[Len(s)] = " " THEN TrimEnd(SubSeq(s, 1, Len(s) - 1)) ELSE s
Trim(s) == TrimEnd(TrimStart(s))

\* hotkey.split(','): the text before the first comma, and the rest after it
RECURSIVE UpToComma(_)
UpToComma(s) ==
    IF s = <<>> \/ Head(s) = "," THEN <<>> ELSE <<Head(s)>> \o UpToComma(Tail(s))
RECURSIVE AfterComma(_)
AfterComma(s) ==
    IF s = <<>> THEN <<>> ELSE IF Head(s) = "," THEN Tail(s) ELSE AfterComma(Tail(s))
HasComma(s) == \E i \in 1..Len(s) : s[i] = ","
\* let func = iter.next(): always Some
SplitFunc(s) == UpToComma(s)
\* let key = iter.next(): <<key>> for Some(key), <<>> for None
SplitKey(s) == IF HasComma(s) THEN <<UpToComma(AfterComma(s))>> ELSE <<>>

\* lines 99-113: the action names register accepts
FnOpenOrCloseDashboard ==
    <<"o", "p", "e", "n", "_", "o", "r", "_", "c", "l", "o", "s", "e", "_",
      "d", "a", "s", "h", "b", "o", "a", "r", "d">>
FnClashModeRule ==
    <<"c", "l", "a", "s", "h", "_", "m", "o", "d", "e", "_", "r", "u", "l",
      "e">>
FnClashModeGlobal ==
    <<"c", "l", "a", "s", "h", "_", "m", "o", "d", "e", "_", "g", "l", "o",
      "b", "a", "l">>
FnClashModeDirect ==
    <<"c", "l", "a", "s", "h", "_", "m", "o", "d", "e", "_", "d", "i", "r",
      "e", "c", "t">>
FnToggleSystemProxy ==
    <<"t", "o", "g", "g", "l", "e", "_", "s", "y", "s", "t", "e", "m", "_",
      "p", "r", "o", "x", "y">>
FnToggleTunMode ==
    <<"t", "o", "g", "g", "l", "e", "_", "t", "u", "n", "_", "m", "o", "d",
      "e">>
FnQuit ==
    <<"q", "u", "i", "t">>
HotkeyFuncs ==
    {FnOpenOrCloseDashboard, FnClashModeRule, FnClashModeGlobal, FnClashModeDirect,
     FnToggleSystemProxy, FnToggleTunMode, FnQuit}

MapKeys(m) == {e[1] : e \in m}
MapGet(m, k) == (CHOOSE e \in m : e[1] = k)[2]
\* HashMap::insert
MapInsert(m, k, f) == {e \in m : e[1] # k} \cup {<<k, f>>}

\* lines 143-151: unregister, on the OS shortcuts reg
unregister(reg, hotkey) == {e \in reg : e[1] # hotkey}

\* lines 89-141: register, on the OS shortcuts reg: a shortcut already held
\* for the key is dropped first; an unknown action name bails out after that
register(reg, hotkey, func) ==
    LET cleared == unregister(reg, hotkey)
    IN  IF Trim(func) \in HotkeyFuncs
        THEN cleared \cup {<<hotkey, Trim(func)>>}
        ELSE cleared

\* lines 172-187: get_map_from_vec, later settings of a key replacing earlier
RECURSIVE get_map_from_vec(_)
get_map_from_vec(hotkeys) ==
    IF hotkeys = <<>> THEN {}
    ELSE LET n == Len(hotkeys)
             before == get_map_from_vec(SubSeq(hotkeys, 1, n - 1))
             hotkey == hotkeys[n]
         IN  IF SplitKey(hotkey) # <<>>
             THEN MapInsert(before, Trim(SplitKey(hotkey)[1]), Trim(SplitFunc(hotkey)))
             ELSE before

\* lines 189-215: get_diff
get_diff(old_map, new_map) ==
    [del |-> {key \in MapKeys(old_map) :
                 \/ key \notin MapKeys(new_map)
                 \/ MapGet(new_map, key) # MapGet(old_map, key)},
     add |-> {<<key, MapGet(new_map, key)>> : key \in
                 {k \in MapKeys(old_map) :
                     k \in MapKeys(new_map) /\ MapGet(new_map, k) # MapGet(old_map, k)}}
             \cup {e \in new_map : e[1] \notin MapKeys(old_map)}]

\* lines 52-70: the loop of init over the configured hotkeys, in order
RECURSIVE RegisterEach(_, _)
RegisterEach(reg, hotkeys) ==
    IF hotkeys = <<>> THEN reg
    ELSE LET hotkey == Head(hotkeys)
             next == IF SplitKey(hotkey) # <<>>
                     THEN register(reg, SplitKey(hotkey)[1], SplitFunc(hotkey))
                     ELSE reg
         IN  RegisterEach(next, Tail(hotkeys))

\* lines 160-166: unregister every key of del, then register every pair of add
RECURSIVE RegisterAll(_, _)
RegisterAll(reg, add) ==
    IF add = {} THEN reg
    ELSE LET e == CHOOSE x \in add : TRUE
         IN  RegisterAll(register(reg, e[1], e[2]), add \ {e})
ApplyDiff(reg, diff) == RegisterAll({e \in reg : e[1] \notin diff.del}, diff.add)

\* the hotkey settings handed to init (from the application settings) and
\* to update
HkQuitQ == <<"q", "u", "i", "t", ",", "Q">>
HkQuitW == <<" ", "q", "u", "i", "t", ",", "W">>
HkRuleQ == <<"c", "l", "a", "s", "h", "_", "m", "o", "d", "e", "_", "r", "u", "l", "e", ",", "Q">>
HkBogusQ == <<"b", "o", "g", "u", "s", ",", "Q">>
HkNoKey == <<"q", "u", "i", "t">>
HotkeyEntries == {HkQuitQ, HkQuitW, HkRuleQ, HkBogusQ, HkNoKey}
HotkeyLists == UNION {[1..n -> HotkeyEntries] : n \in 0..MaxHotkeys}

\* lines 18-25: Hotkey::global(); last is the call made last
HkStart ==
    [current |-> <<>>, initialized |-> FALSE, registered |-> {},
     last |-> <<"none">>]

\* lines 27-77: init, with enable_global_hotkey and hotkeys as the application
\* settings hold them (configured = <<>> for None, <<list>> for Some(list))
HotkeyInit(enable_global_hotkey, configured) ==
    /\ hk' = IF hk.initialized
             THEN [hk EXCEPT !.last = <<"init">>]
             ELSE IF ~enable_global_hotkey \/ configured = <<>>
             THEN [hk EXCEPT !.initialized = TRUE, !.last = <<"init">>]
             ELSE [current |-> configured[1],
                   initialized |-> TRUE,
                   registered |-> RegisterEach(hk.registered, configured[1]),
                   last |-> <<"init">>]
    /\ UNCHANGED <<supVars, cfgVars, pc, stack, op, arg, rv, tries, fx, obs, calls>>

\* lines 79-87: reset
HotkeyReset ==
    /\ hk' = [hk EXCEPT !.registered = {}, !.initialized = FALSE, !.last = <<"reset">>]
    /\ UNCHANGED <<supVars, cfgVars, pc, stack, op, arg, rv, tries, fx, obs, calls>>

\* lines 153-170: update
HotkeyUpdate(new_hotkeys) ==
    LET old_map == get_map_from_vec(hk.current)
        new_map == get_map_from_vec(new_hotkeys)
        diff == get_diff(old_map, new_map)
    IN  /\ hk' = [hk EXCEPT !.registered = ApplyDiff(hk.registered, diff),
                            !.current = new_hotkeys,
                            !.last = <<"update", new_hotkeys>>]
        /\ UNCHANGED <<supVars, cfgVars, pc, stack, op, arg, rv, tries, fx, obs, calls>>

\* ------------------------------------------------------------- entry points
\* what a call observes: RunningState as each supervisor body read it (entry)
\* and left it (exit), the notices it sent, and for change_core the committed
\* application settings and runtime config found when it was called (prior)
NoObs == [entry |-> <<>>, exit |-> <<>>, notices |-> <<>>, prior |-> <<>>]

\* A caller that is idle, or has its previous result ("done"), makes a call.
Enter(p, name, a, at, conts, first, ob) ==
    /\ pc[p] \in {"idle", "done"}
    /\ calls < MaxCalls
    /\ calls' = calls + 1
    /\ pc' = [pc EXCEPT ![p] = at]
    /\ stack' = [stack EXCEPT ![p] = conts]
    /\ op' = [op EXCEPT ![p] = name]
    /\ arg' = [arg EXCEPT ![p] = a]
    /\ rv' = [rv EXCEPT ![p] = NoValue]
    /\ fx' = [fx EXCEPT ![p] = first]
    /\ obs' = [obs EXCEPT ![p] = ob]
    /\ UNCHANGED <<supVars, cfgVars, tries, hk>>

\* a caller awaits CoreManager::global().stop_core()
CallStop(p) ==
    /\ calls < MaxCalls
    /\ Enter(p, "stop_core", "-", "stop_lock", <<"done">>, <<"stop_core">>, NoObs)

\* a caller awaits CoreManager::global().start_core()
CallStart(p) ==
    /\ calls < MaxCalls
    /\ Enter(p, "start_core", "-", "start_lock", <<"done">>, <<"start_core">>, NoObs)

\* lines 133-135: restart_core begins with self.stop_core().await
CallRestart(p) ==
    /\ calls < MaxCalls
    /\ Enter(p, "restart_core", "-", "stop_lock", <<"restart_mid", "done">>,
             <<"stop_core">>, NoObs)

\* update_config and change_core are driven by one logical caller at a time
\* (the pipelines keep no guard of their own against overlapping drafts)
PipelineFree ==
    \A q \in Callers : pc[q] \in {"idle", "done"} \/ op[q] \notin {"update_config", "change_core"}

\* a caller awaits CoreManager::global().update_config()
CallUpdateConfig(p) ==
    /\ PipelineFree
    /\ Enter(p, "update_config", "-", "uc_generate", <<"done">>, <<>>, NoObs)

\* a caller awaits CoreManager::global().change_core(clash_core)
CallChangeCore(p) ==
    /\ PipelineFree
    /\ \E a \in CoreArgs :
          Enter(p, "change_core", a, "cc_entry", <<"done">>, <<>>,
                [NoObs EXCEPT !.prior = <<verge.data, runtime.data>>])

\* ------------------------------------------------------------------- claims
Has(f, e) == \E i \in 1..Len(f) : f[i] = e
Count(f, S) == Cardinality({i \in 1..Len(f) : f[i] \in S})
Last(f) == f[Len(f)]

\* caller p is between acquiring and releasing the RunningState lock
InStop(p) == pc[p] \in {"stop_check", "stop_patch", "stop_probe", "stop_service", "stop_kill"}
InStart(p) ==
    pc[p] \in {"start_check", "start_generate", "start_probe", "start_service",
               "start_spawn", "start_sleep"}
InBody(p) == InStop(p) \/ InStart(p)
Finished(p, name) == pc[p] = "done" /\ op[p] = name

\* C1: start_core and stop_core are mutually exclusive: at most one caller is
\* between acquiring and releasing the RunningState lock, and a caller that is
\* there (where RunningState is read and written) holds the lock.
C1_MutualExclusion ==
    /\ \A p, q \in Callers : p # q => ~(InBody(p) /\ InBody(q))
    /\ \A p \in Callers : InBody(p) => lockHolder = p

\* a start_core caller is inside its body while a stop_core caller waits for the lock
C1_Witness ==
    \E p, q \in Callers :
        /\ p # q
        /\ op[p] = "start_core" /\ InStart(p)
        /\ op[q] = "stop_core" /\ pc[q] = "stop_lock"
        /\ lockHolder = p

\* caller p is inside restart_core: in its stop phase, between the phases, or
\* in its start phase
RestartStopPhase(p) == InStop(p) /\ Has(stack[p], "restart_mid")
RestartBetween(p) == pc[p] = "start_lock" /\ Has(stack[p], "restart_end")
RestartStartPhase(p) == InStart(p) /\ Has(stack[p], "restart_end")

\* C2 as stated: restart_core holds the RunningState lock for its full
\* duration: from its stop phase to the end of its start phase, the point
\* between the two phases included, no other caller is inside a start_core or
\* stop_core body.
C2_RestartHoldsLockThroughout ==
    \A p \in Callers :
        RestartStopPhase(p) \/ RestartBetween(p) \/ RestartStartPhase(p) =>
            \A q \in Callers : q # p => ~InBody(q)

\* C2 amended: restart_core takes the lock once in its stop phase and once in
\* its start phase; inside each phase the restarting caller owns the lock and
\* no other caller is inside a body, and between the two phases it does not
\* own the lock.
C2_RestartLocksEachPhase ==
    \A p \in Callers :
        /\ RestartStopPhase(p) \/ RestartStartPhase(p) =>
              /\ lockHolder = p
              /\ \A q \in Callers : q # p => ~InBody(q)
        /\ RestartBetween(p) => lockHolder # p

\* between the two phases of one caller's restart, another caller's
\* start_core owns the lock and is inside its body
C2_Witness ==
    \E p, q \in Callers :
        /\ p # q
        /\ RestartBetween(p)
        /\ Len(obs[p].exit) = 1
        /\ op[q] = "start_core" /\ InStart(q)
        /\ lockHolder = q

\* C3: a supervisor call whose target state already holds returns Ok with no
\* effect: start_core that reads RunningState = true generates no file, probes
\* nothing and spawns nothing; stop_core that reads RunningState = false
\* patches, stops and kills nothing; RunningState is left as it was read.
C3_NoOpWhenTargetHolds ==
    \A p \in Callers :
        /\ Finished(p, "start_core") /\ obs[p].entry = <<TRUE>> =>
              rv[p] = Ok /\ fx[p] = <<"start_core">> /\ obs[p].exit = <<TRUE>>
        /\ Finished(p, "stop_core") /\ obs[p].entry = <<FALSE>> =>
              rv[p] = Ok /\ fx[p] = <<"stop_core">> /\ obs[p].exit = <<FALSE>>

\* a start_core call has found the core running, after a stop_core call found
\* it stopped
C3_Witness ==
    \E p \in Callers :
        /\ Finished(p, "start_core")
        /\ obs[p].entry = <<TRUE>>
        /\ running
        /\ svcEngine \/ sidecars > 0

\* C4: start_core sets RunningState to true only after the whole start
\* sequence succeeded: while the sequence is under way RunningState is false,
\* a start_core that fails (Run-file generation, service run or spawn) returns
\* the error with RunningState false, and one that ran the sequence to its
\* end returns Ok with RunningState true.
C4_RunningOnlyAfterSuccess ==
    \A p \in Callers :
        /\ InStart(p) /\ pc[p] # "start_check" => ~running
        /\ Finished(p, "start_core") /\ obs[p].entry = <<FALSE>> =>
              IF rv[p].tag = "Err"
              THEN /\ obs[p].exit = <<FALSE>>
                   /\ Last(fx[p]) \in {"gen_run_err", "svc_run_err", "spawn_err"}
              ELSE /\ obs[p].exit = <<TRUE>>
                   /\ Has(fx[p], "gen_run")
                   /\ Last(fx[p]) \in {"svc_run_ok", "spawn_ok"}

\* a start_core call has failed in the service-delegated run
C4_Witness ==
    \E p \in Callers :
        /\ Finished(p, "start_core")
        /\ rv[p] = Err(ErrSvcRun)
        /\ Last(fx[p]) = "svc_run_err"
        /\ obs[p].exit = <<FALSE>>

\* C5 as stated: stop_core called with RunningState = true always leaves
\* RunningState = false when it returns, whatever the patch, the service stop
\* or the kill did.
C5_StopAlwaysClears ==
    \A p \in Callers :
        Finished(p, "stop_core") /\ obs[p].entry = <<TRUE>> => obs[p].exit = <<FALSE>>

\* C5 amended: stop_core called with RunningState = true returns Ok with
\* RunningState = false whether the tun-disable patch fails or not and whether
\* the by-name kill succeeds or fails, and whenever the service-delegated stop
\* succeeds; when the service-delegated stop fails it returns that error and
\* RunningState is still true.
C5_StopClearsUnlessServiceStopFails ==
    \A p \in Callers :
        Finished(p, "stop_core") /\ obs[p].entry = <<TRUE>> =>
            /\ Count(fx[p], {"patch_ok", "patch_err"}) = 1
            /\ IF Has(fx[p], "svc_stop_err")
               THEN rv[p] = Err(ErrSvcStop) /\ obs[p].exit = <<TRUE>>
               ELSE /\ rv[p] = Ok
                    /\ obs[p].exit = <<FALSE>>
                    /\ Last(fx[p]) \in {"svc_stop_ok", "kill_ok", "kill_err"}

\* a stop_core call has cleared RunningState although the patch and the kill failed
C5_Witness ==
    \E p \in Callers :
        /\ Finished(p, "stop_core")
        /\ obs[p].entry = <<TRUE>>
        /\ Has(fx[p], "patch_err")
        /\ Last(fx[p]) = "kill_err"
        /\ obs[p].exit = <<FALSE>>

\* C6: when restart_core's stop_core succeeds and its start_core then fails,
\* restart_core returns that error and RunningState is false.
C6_RestartFailureLeavesStopped ==
    \A p \in Callers :
        /\ Finished(p, "restart_core")
        /\ Len(fx[p]) > 0
        /\ Last(fx[p]) \in {"gen_run_err", "svc_run_err", "spawn_err"}
        => /\ rv[p].tag = "Err"
           /\ rv[p].diag = (CASE Last(fx[p]) = "gen_run_err" -> ErrGenFile
                              [] Last(fx[p]) = "svc_run_err" -> ErrSvcRun
                              [] OTHER -> ErrSidecar)
           /\ Len(obs[p].exit) = 2
           /\ obs[p].exit[1] = FALSE
           /\ obs[p].exit[2] = FALSE

\* a restart has stopped a running core and then failed to spawn the new one
C6_Witness ==
    \E p \in Callers :
        /\ Finished(p, "restart_core")
        /\ obs[p].entry = <<TRUE, FALSE>>
        /\ Last(fx[p]) = "spawn_err"
        /\ rv[p] = Err(ErrSidecar)

\* caller p is inside update_config; its next step returns from it
UcActive(p) == op[p] = "update_config" /\ pc[p] \notin {"idle", "done"}
UcReturns(p) == UcActive(p) /\ pc'[p] = "done"
Pushes(f) == Count(f, {"push_ok", "push_err"})

\* C7: in every execution of update_config, whatever its outcome, the runtime
\* draft is committed if and only if a push to the engine succeeded; when
\* update_config returns no runtime draft is left pending, and the committed
\* runtime value changes only by the commit that follows a successful push.
C7_DraftCommittedIffPushed ==
    [][\A p \in Callers :
          /\ UcActive(p) /\ runtime'.data # runtime.data =>
                /\ pc[p] = "uc_push"
                /\ Has(fx'[p], "push_ok")
          /\ UcReturns(p) =>
                /\ runtime'.draft = NoDraft
                /\ Has(fx'[p], "push_ok") =>
                      runtime.draft # NoDraft /\ runtime'.data = runtime.draft[1]]_vars

\* C8: after a successful validation update_config pushes at most 3 times and
\* never after a successful push; the first successful push returns
\* (true, "") with the runtime draft committed; the third failed push returns
\* (false, text of that last error) with the draft discarded and the
\* committed runtime value unchanged; an earlier failed push changes nothing
\* and leads to the next push.
C8_PushAtMostThrice ==
    [][\A p \in Callers :
          pc[p] = "uc_push" /\ fx'[p] # fx[p] =>
              /\ ~Has(fx[p], "push_ok")
              /\ Pushes(fx'[p]) = Pushes(fx[p]) + 1
              /\ Pushes(fx'[p]) <= 3
              /\ runtime.draft # NoDraft
              /\ IF Has(fx'[p], "push_ok")
                 THEN /\ pc'[p] = "done"
                      /\ rv'[p] = Outcome(TRUE, EmptyText)
                      /\ runtime' = [data |-> runtime.draft[1], draft |-> NoDraft]
                 ELSE IF Pushes(fx'[p]) = 3
                 THEN /\ pc'[p] = "done"
                      /\ rv'[p] = Outcome(FALSE, PushError(2))
                      /\ runtime' = [data |-> runtime.data, draft |-> NoDraft]
                 ELSE /\ pc'[p] = "uc_push"
                      /\ runtime' = runtime]_vars

\* one update_config has failed three pushes and returned the last error;
\* another has then succeeded on its third push and committed its draft
C8_Witness ==
    \E p, q \in Callers :
        /\ p # q
        /\ Finished(p, "update_config")
        /\ rv[p] = Outcome(FALSE, PushError(2))
        /\ Count(fx[p], {"push_err"}) = 3
        /\ Finished(q, "update_config")
        /\ rv[q] = Outcome(TRUE, EmptyText)
        /\ Count(fx[q], {"push_err"}) = 2 /\ Count(fx[q], {"push_ok"}) = 1
        /\ runtime = [data |-> RtGenerated(2), draft |-> NoDraft]

\* C9: when the validation in update_config reports the candidate invalid,
\* update_config discards the runtime draft and returns that outcome with its
\* diagnostic at once: no Run-type file is generated, nothing is pushed.
C9_InvalidStopsPipeline ==
    [][\A p \in Callers :
          /\ pc[p] = "uc_validated" /\ pc'[p] # "uc_validated"
          /\ rv[p].tag = "Ok" /\ ~rv[p].passed
          => /\ pc'[p] = "done"
             /\ rv'[p] = rv[p]
             /\ runtime' = [data |-> runtime.data, draft |-> NoDraft]
             /\ runFile' = runFile
             /\ fx'[p] = fx[p] \o <<"runtime_discard">>
             /\ ~Has(fx'[p], "gen_run") /\ Pushes(fx'[p]) = 0]_vars

\* an update_config has returned the failed validation with its diagnostic
C9_Witness ==
    \E p \in Callers :
        /\ Finished(p, "update_config")
        /\ rv[p] = Outcome(FALSE, <<"x">> \o KwFATA)
        /\ Has(fx[p], "check")
        /\ Last(fx[p]) = "runtime_discard"
        /\ runtime = [data |-> RtInit, draft |-> NoDraft]

\* C10: change_core(None) and change_core(Some(v)) with v outside
\* {verge-mihomo, verge-mihomo-alpha} return an error with no state touched:
\* no draft is written, no committed value changes, nothing is validated, no
\* restart is attempted and RunningState is unchanged.
C10_RejectTouchesNothing ==
    [][\A p \in Callers :
          /\ pc[p] = "cc_entry" /\ pc'[p] # "cc_entry"
          /\ arg[p] \notin {"verge-mihomo", "verge-mihomo-alpha"}
          => /\ pc'[p] = "done"
             /\ rv'[p].tag = "Err"
             /\ fx'[p] = <<>>
             /\ UNCHANGED <<verge, runtime, runFile, running, lockHolder, svcEngine, sidecars>>]_vars

\* change_core(None) and change_core(Some("not-a-real-core")) have both been
\* rejected, and every config domain is as it was at startup
C10_Witness ==
    \E p, q \in Callers :
        /\ Finished(p, "change_core") /\ arg[p] = CoreNone /\ rv[p] = Err(ErrCoreNull)
        /\ Finished(q, "change_core") /\ arg[q] = "not-a-real-core"
        /\ rv[q] = Err(ErrCoreName)
        /\ verge = [data |-> CoreStable, draft |-> NoDraft]
        /\ runtime = [data |-> RtInit, draft |-> NoDraft]

\* caller p is inside change_core
CcActive(p) == op[p] = "change_core" /\ pc[p] \notin {"idle", "done"}
\* position of the first e in f
Index(f, e) == CHOOSE i \in 1..Len(f) : f[i] = e /\ \A j \in 1..(i - 1) : f[j] # e

\* C11: when change_core's validation passed and the restart then failed,
\* change_core returns the error with the application settings and the runtime
\* config holding the committed values found at the call (the committed engine
\* variant is the one from before the call) and with no draft pending.
C11_RestartFailureReverts ==
    [][\A p \in Callers :
          pc[p] = "cc_restarted" /\ rv[p].tag = "Err" /\ pc'[p] # pc[p] =>
              /\ pc'[p] = "done"
              /\ rv'[p] = rv[p]
              /\ verge' = [data |-> obs[p].prior[1], draft |-> NoDraft]
              /\ runtime' = [data |-> obs[p].prior[2], draft |-> NoDraft]]_vars

\* C12: when change_core's validation reports failure and the restart
\* succeeds: the fallback notice is sent once, carrying the validation error
\* text, with the default put in the runtime draft; when the restart returns
\* Ok RunningState is true, the committed variant is the requested one, the
\* Run file the engine was started with is the default config and one notice
\* was sent; change_core then returns Ok and changes none of these.
C12_FallbackRunsDefault ==
    [][\A p \in Callers :
          /\ pc[p] = "cc_use_default" /\ pc'[p] = "cc_fallback" =>
                /\ rv[p].tag = "Ok" /\ ~rv[p].passed /\ rv[p].diag # EmptyText
                /\ obs'[p].notices = <<rv[p].diag>>
                /\ runtime'.draft = <<RtDefault>>
          /\ pc[p] # "cc_restarted_default" /\ pc'[p] = "cc_restarted_default"
             /\ rv'[p].tag = "Ok" =>
                /\ running'
                /\ verge' = [data |-> arg[p], draft |-> NoDraft]
                /\ runFile' = RtDefault
                /\ Len(obs'[p].notices) = 1
                /\ Count(fx'[p], {"notice"}) = 1
          /\ pc[p] = "cc_restarted_default" /\ rv[p].tag = "Ok" /\ pc'[p] # pc[p] =>
                /\ pc'[p] = "done"
                /\ rv'[p] = Ok
                /\ UNCHANGED <<running, verge, runFile, obs>>]_vars

\* a switch to the alpha core whose validation failed has returned Ok: the
\* core runs, alpha is committed, the Run file is the default, one notice
C12_Witness ==
    \E p \in Callers :
        /\ Finished(p, "change_core") /\ arg[p] = CoreAlpha /\ rv[p] = Ok
        /\ obs[p].prior[1] = CoreStable
        /\ obs[p].notices = << <<"x">> \o KwFATA >>
        /\ running
        /\ verge = [data |-> CoreAlpha, draft |-> NoDraft]
        /\ runFile = RtDefault

\* C13: when the validation in change_core errors out, change_core discards
\* the application-settings draft and returns that error; it attempts no
\* restart (no stop_core, no start_core, RunningState and the engines
\* untouched) and the committed variant is the one found at the call.
C13_ValidationErrorAborts ==
    [][\A p \in Callers :
          pc[p] = "cc_validated" /\ rv[p].tag = "Err" /\ pc'[p] # pc[p] =>
              /\ pc'[p] = "done"
              /\ rv'[p] = rv[p]
              /\ verge.draft = <<arg[p]>>
              /\ verge' = [data |-> obs[p].prior[1], draft |-> NoDraft]
              /\ ~Has(fx'[p], "stop_core") /\ ~Has(fx'[p], "start_core")
              /\ UNCHANGED <<running, lockHolder, svcEngine, sidecars, runtime, runFile>>]_vars

\* a switch to the alpha core has returned the error of the check process
\* that could not be run; the stable core is still the committed one
C13_Witness ==
    \E p \in Callers :
        /\ Finished(p, "change_core") /\ arg[p] = CoreAlpha
        /\ rv[p] = Err(ErrSidecar)
        /\ Last(fx[p]) = "verge_discard"
        /\ verge = [data |-> CoreStable, draft |-> NoDraft]

\* C14: during change_core(variant) every check process is run with the
\* requested variant's binary: the variant just written to the
\* application-settings draft, not the committed one.
C14_ValidatesWithRequestedCore ==
    \A p \in Callers :
        op[p] = "change_core" =>
            \A i \in 1..Len(fx[p]) :
                fx[p][i] = "check" => i < Len(fx[p]) /\ fx[p][i + 1] = arg[p]

\* a switch from the committed stable core to alpha has run its check
C14_Witness ==
    \E p \in Callers :
        /\ CcActive(p) /\ pc[p] = "cc_validated"
        /\ arg[p] = CoreAlpha /\ verge.data = CoreStable
        /\ Has(fx[p], "check")
        /\ rv[p].tag = "Ok" /\ rv[p].passed

\* C20: in change_core the application-settings draft is committed before the
\* restart begins, the restart runs stop_core and then start_core, and the
\* runtime draft is committed only as the last step after a restart that
\* returned Ok; when the restart failed the runtime config is not committed.
C20_SwitchOrder ==
    [][\A p \in Callers :
          CcActive(p) /\ fx'[p] # fx[p] =>
              /\ Has(fx'[p], "stop_core") =>
                    /\ Has(fx'[p], "verge_apply")
                    /\ Index(fx'[p], "verge_apply") < Index(fx'[p], "stop_core")
                    /\ verge' = [data |-> arg[p], draft |-> NoDraft]
              /\ Has(fx'[p], "start_core") =>
                    /\ Has(fx'[p], "stop_core")
                    /\ Index(fx'[p], "stop_core") < Index(fx'[p], "start_core")
              /\ Count(fx'[p], {"stop_core"}) <= 1 /\ Count(fx'[p], {"start_core"}) <= 1
              /\ Has(fx'[p], "runtime_apply") =>
                    /\ pc[p] = "cc_restarted" /\ rv[p] = Ok
                    /\ Has(fx[p], "start_core")
                    /\ Last(fx'[p]) = "runtime_apply"
                    /\ pc'[p] = "done"
              /\ pc[p] = "cc_restarted" /\ rv[p].tag = "Err" =>
                    ~Has(fx'[p], "runtime_apply")
              /\ runtime'.data # runtime.data => Has(fx'[p], "runtime_apply")]_vars

\* a validated switch to alpha has committed the settings, restarted the
\* core and then committed the runtime config
C20_Witness ==
    \E p \in Callers :
        /\ Finished(p, "change_core") /\ arg[p] = CoreAlpha /\ rv[p] = Ok
        /\ Has(fx[p], "svc_stop_ok") /\ Has(fx[p], "spawn_ok")
        /\ Last(fx[p]) = "runtime_apply"
        /\ verge = [data |-> CoreAlpha, draft |-> NoDraft]
        /\ running

\* a finished validate_config_file call, and the validator it went through
VfDone(p) == op[p] = "validate_config_file" /\ pc[p] = "done"
ViaScript(p) == Has(fx[p], "script")
ViaEngine(p) == Has(fx[p], "engine")

\* C15: every validation outcome, from the file-not-found return, from script
\* validation (unreadable script included) and from engine-binary validation
\* for every exit status, stdout and stderr, has a non-empty diagnostic when
\* passed = false and an empty diagnostic when passed = true.
C15_DiagnosticIffFailed ==
    \A p \in Callers :
        VfDone(p) /\ rv[p].tag = "Ok" => (rv[p].passed <=> rv[p].diag = EmptyText)

\* a check process that failed without printing anything: the diagnostic is
\* the exit-code text
C15_Witness ==
    \E p \in Callers :
        /\ VfDone(p) /\ ViaEngine(p)
        /\ arg[p].status = 1 /\ arg[p].stdout = EmptyText /\ arg[p].stderr = EmptyText
        /\ rv[p] = Outcome(FALSE, TextExitCode(1))

\* C16: engine-binary validation returns passed = false exactly when the
\* check process exits with a non-success status or its stderr contains one
\* of "FATA", "fatal", "Parse config error", "level=fatal"; otherwise,
\* whatever stdout holds, it returns passed = true.
C16_FailsIffStatusOrMarker ==
    \A p \in Callers :
        VfDone(p) /\ ViaEngine(p) /\ rv[p].tag = "Ok" =>
            (~rv[p].passed <=>
                \/ arg[p].status # 0
                \/ \E kw \in {KwFATA, KwFatal, KwParse, KwLevelFatal} :
                      Contains(arg[p].stderr, kw))

\* a check process that exited with success and wrote a marker to stdout
\* only has passed
C16_Witness ==
    \E p \in Callers :
        /\ VfDone(p) /\ ViaEngine(p)
        /\ arg[p].status = 0
        /\ arg[p].stdout = KwFATA
        /\ arg[p].stderr = <<"w", "a", "r", "n">>
        /\ rv[p] = Outcome(TRUE, EmptyText)

\* s defines main: "function main", "const main" or "let main" with the name
\* ending there (no further identifier character)
IdentChars ==
    {"a", "b", "c", "d", "e", "f", "g", "h", "i", "j", "k", "l", "m", "n", "o",
     "p", "q", "r", "s", "t", "u", "v", "w", "x", "y", "z", "_", "$",
     "0", "1", "2", "3", "4", "5", "6", "7", "8", "9"}
DefinesMain(s) ==
    \E m \in {MainFunction, MainConst, MainLet} :
        \E i \in 1..Len(s) :
            /\ i + Len(m) - 1 <= Len(s)
            /\ SubSeq(s, i, i + Len(m) - 1) = m
            /\ i + Len(m) <= Len(s) => s[i + Len(m)] \notin IdentChars

\* C17: script validation of a source that was read has three outcomes, in
\* this order: the source fails to evaluate: the syntax-error diagnostic,
\* whether or not main is defined; else the source defines no main
\* (function, const or let): the missing-entry-point diagnostic; else it
\* passes.
C17_ScriptThreeOutcomes ==
    \A p \in Callers :
        VfDone(p) /\ ViaScript(p) /\ arg[p].readable =>
            rv[p] = IF ~arg[p].evaluates
                    THEN Outcome(FALSE, TextSyntaxError \o EvalErrorText)
                    ELSE IF ~DefinesMain(arg[p].content)
                    THEN Outcome(FALSE, TextMissingMain)
                    ELSE Outcome(TRUE, EmptyText)

\* C18: as the test asserts, for a .js script that fails to parse the
\* diagnostic contains the text U+811A U+672C U+8BED U+6CD5 U+9519 U+8BEF,
\* and for a .js script that parses but has no main it contains
\* U+7F3A U+5C11 "main" U+51FD U+6570.
C18_DiagnosticTextsOfTheTest ==
    \A p \in Callers :
        /\ VfDone(p) /\ arg[p].exists /\ arg[p].readable
        /\ EndsWith(arg[p].path, <<".", "j", "s">>)
        => /\ ~arg[p].evaluates =>
                 ~rv[p].passed /\ Contains(rv[p].diag, LogSyntaxError)
           /\ arg[p].evaluates /\ ~Contains(arg[p].content, <<"m", "a", "i", "n">>) =>
                 ~rv[p].passed /\ Contains(rv[p].diag, LogMissingMain)

\* C19: validate_config_file hands a path to at most one validator: a
\* path that does not exist returns the file-not-found failure with no
\* sniffing and no validator; an existing path ending in .js, or whose first
\* lines sniff as script, goes to script validation only; an existing path
\* that sniffs as no script, or that cannot be read for sniffing, goes to
\* engine-binary validation only, and its outcome is the engine's.
C19_OneValidatorPerPath ==
    \A p \in Callers :
        VfDone(p) =>
            LET f == arg[p]
                js == EndsWith(f.path, <<".", "j", "s">>)
                scripts == Count(fx[p], {"script_read", "script_read_err"})
                checks == Count(fx[p], {"check", "check_err"})
            IN  /\ scripts + checks <= 1
                /\ ~f.exists =>
                      /\ rv[p] = Outcome(FALSE, TextFileNotFound \o f.path)
                      /\ fx[p] = <<>>
                /\ f.exists /\ js => scripts = 1 /\ ~Has(fx[p], "sniff")
                /\ f.exists /\ ~js /\ f.readable /\ IsScriptFile(f.content) =>
                      scripts = 1 /\ Has(fx[p], "sniff")
                /\ f.exists /\ ~js /\ (~f.readable \/ ~IsScriptFile(f.content)) =>
                      /\ checks = 1
                      /\ rv[p] \in {Err(ErrSidecar),
                                     ValidateOutput(f.status, f.stdout, f.stderr)}

\* a file that exists but could not be read for sniffing has passed the
\* engine-binary validation
C19_Witness ==
    \E p \in Callers :
        /\ VfDone(p)
        /\ arg[p].exists /\ ~arg[p].readable /\ arg[p].path = PathNoDot
        /\ Has(fx[p], "sniff_err") /\ Has(fx[p], "check")
        /\ rv[p] = Outcome(TRUE, EmptyText)

\* the events of the tun-disable patch and of the termination actions
PatchEvents == {"patch_ok", "patch_err"}
TerminationEvents == {"svc_stop_ok", "svc_stop_err", "kill_ok", "kill_err"}

\* C21: in stop_core with RunningState = true the tun-disable patch is issued
\* exactly once and before any termination action (service stop or by-name
\* kill); a failed patch is not fatal: the termination action still runs, and
\* the result of stop_core is that of the termination action alone.
C21_PatchOnceBeforeTermination ==
    \A p \in Callers :
        op[p] = "stop_core" =>
            /\ Count(fx[p], PatchEvents) <= 1
            /\ Count(fx[p], TerminationEvents) <= 1
            /\ pc[p] \in {"stop_probe", "stop_service", "stop_kill"} =>
                  Count(fx[p], PatchEvents) = 1
            /\ \A i, j \in 1..Len(fx[p]) :
                  fx[p][i] \in PatchEvents /\ fx[p][j] \in TerminationEvents => i < j
            /\ Finished(p, "stop_core") /\ obs[p].entry = <<TRUE>> =>
                  /\ Count(fx[p], PatchEvents) = 1
                  /\ Count(fx[p], TerminationEvents) = 1
                  /\ rv[p] = IF Has(fx[p], "svc_stop_err") THEN Err(ErrSvcStop) ELSE Ok

\* a stop_core whose patch failed has gone on to stop the core through the
\* service and returned Ok
C21_Witness ==
    \E p \in Callers :
        /\ Finished(p, "stop_core")
        /\ obs[p].entry = <<TRUE>>
        /\ fx[p] = <<"stop_core", "patch_err", "probe", "svc_stop_ok">>
        /\ rv[p] = Ok
        /\ ~running

\* engines launched by the supervisor that are alive
EnginesAlive == (IF svcEngine THEN 1 ELSE 0) + sidecars

\* C22: after any sequence of start_core, stop_core and restart_core calls,
\* with the strategy probed anew in each call, at most one engine launched by
\* the supervisor is alive, and when a stop_core takes RunningState from true
\* to false the engine launched by the preceding start_core (service-managed
\* or directly spawned) has been terminated.
C22_AtMostOneEngineAlive ==
    [][/\ EnginesAlive' <= 1
       /\ running /\ ~running' => EnginesAlive' = 0]_vars

\* C23: whenever change_core returns, on every branch, no draft written
\* during the call is left pending: neither in the application settings nor
\* in the runtime config.
C23_NoDraftLeftPending ==
    [][\A p \in Callers :
          CcActive(p) /\ pc'[p] = "done" =>
              /\ Has(fx'[p], "verge_draft") => verge'.draft = NoDraft
              /\ Has(fx'[p], "runtime_draft") => runtime'.draft = NoDraft]_vars

\* the keys a hotkey list binds to a valid action name
ValidKeys(hotkeys) == {e[1] : e \in {x \in get_map_from_vec(hotkeys) : x[2] \in HotkeyFuncs}}

\* C24: after any sequence of init, update and reset calls, once update(H)
\* has returned the stored current list is H and the shortcuts the OS holds
\* are exactly the keys of H bound to a valid action name.
C24_UpdateReconciles ==
    hk.last[1] = "update" =>
        /\ hk.current = hk.last[2]
        /\ MapKeys(hk.registered) = ValidKeys(hk.last[2])

\* --------------------------------------------------------------------- spec
Init ==
    /\ running = FALSE
    /\ lockHolder = NoCaller
    /\ svcEngine = FALSE
    /\ sidecars = 0
    /\ verge = [data |-> CoreStable, draft |-> NoDraft]
    /\ runtime = [data |-> RtInit, draft |-> NoDraft]
    /\ runFile = RtInit
    /\ pc = [p \in Callers |-> "idle"]
    /\ stack = [p \in Callers |-> <<>>]
    /\ op = [p \in Callers |-> "-"]
    /\ arg = [p \in Callers |-> "-"]
    /\ rv = [p \in Callers |-> NoValue]
    /\ tries = [p \in Callers |-> 0]
    /\ fx = [p \in Callers |-> <<>>]
    /\ obs = [p \in Callers |-> NoObs]
    /\ calls = 0
    /\ hk = HkStart

Next ==
    \/ \E p \in Callers : CallStop(p)
    \/ \E p \in Callers : CallStart(p)
    \/ \E p \in Callers : CallRestart(p)
    \/ \E p \in Callers : CallUpdateConfig(p)
    \/ \E p \in Callers : CallChangeCore(p)
    \/ \E p \in Callers : StopLock(p)
    \/ \E p \in Callers : StopCheck(p)
    \/ \E p \in Callers : StopPatch(p)
    \/ \E p \in Callers : StopProbe(p)
    \/ \E p \in Callers : StopByService(p)
    \/ \E p \in Callers : StopKill(p)
    \/ \E p \in Callers : StartLock(p)
    \/ \E p \in Callers : StartCheck(p)
    \/ \E p \in Callers : StartGenerate(p)
    \/ \E p \in Callers : StartProbe(p)
    \/ \E p \in Callers : StartByService(p)
    \/ \E p \in Callers : StartSpawn(p)
    \/ \E p \in Callers : StartFinish(p)
    \/ \E p \in Callers : ValidateFile(p)
    \/ \E p \in Callers : ValidateInternal(p)
    \/ \E p \in Callers : UcGenerate(p)
    \/ \E p \in Callers : UcCheckFile(p)
    \/ \E p \in Callers : UcValidated(p)
    \/ \E p \in Callers : UcPush(p)
    \/ \E p \in Callers : ChangeCoreEntry(p)
    \/ \E p \in Callers : ChangeCoreValidated(p)
    \/ \E p \in Callers : UseDefaultConfig(p)
    \/ \E p \in Callers : ChangeCoreFallback(p)
    \/ \E p \in Callers : ChangeCoreRestarted(p)
    \/ \E p \in Callers : ChangeCoreRestartedDefault(p)

Spec == Init /\ [][Next]_vars

\* validate_config_file applied to one file: a caller is at its entry with
\* an input drawn from FileInputs
FileInit ==
    /\ running = FALSE
    /\ lockHolder = NoCaller
    /\ svcEngine = FALSE
    /\ sidecars = 0
    /\ verge = [data |-> CoreStable, draft |-> NoDraft]
    /\ runtime = [data |-> RtInit, draft |-> NoDraft]
    /\ runFile = RtInit
    /\ \E p \in Callers, f \in FileInputs :
          /\ pc = [q \in Callers |-> IF q = p THEN "vf_entry" ELSE "idle"]
          /\ stack = [q \in Callers |-> IF q = p THEN <<"done">> ELSE <<>>]
          /\ op = [q \in Callers |-> IF q = p THEN "validate_config_file" ELSE "-"]
          /\ arg = [q \in Callers |-> IF q = p THEN f ELSE "-"]
    /\ rv = [p \in Callers |-> NoValue]
    /\ tries = [p \in Callers |-> 0]
    /\ fx = [p \in Callers |-> <<>>]
    /\ obs = [p \in Callers |-> NoObs]
    /\ calls = 1
    /\ hk = HkStart

FileNext ==
    \/ \E p \in Callers : VfDispatch(p)
    \/ \E p \in Callers : VfScript(p)
    \/ \E p \in Callers : VfInternal(p)

FileSpec == FileInit /\ [][FileNext]_vars

\* the hotkey manager, called by the application with any settings
HotkeyNext ==
    \/ \E e \in BOOLEAN, c \in {<<>>} \cup {<<h>> : h \in HotkeyLists} : HotkeyInit(e, c)
    \/ HotkeyReset
    \/ \E h \in HotkeyLists : HotkeyUpdate(h)

HotkeySpec == Init /\ [][HotkeyNext]_vars

====
